---- MODULE Spec2Model ----
(***************************************************************************)
(* A model of aws-inventory-sdk: the SQLite store written by               *)
(* db::save_resources, the two readers query::run_query and                *)
(* identify::identify_resource_from_db, and the inventory run of main.     *)
(***************************************************************************)
EXTENDS Integers, Sequences, FiniteSets, TLC

\* ------------------------------------------------------------------ bounds

\* Largest surrogate id (resources.id) the model lets the store hand out.
MaxId == 3
\* Longest batch passed to one save_resources call.
MaxBatchLen == 2
\* Most pages one paginated describe call yields for one region.
MaxPages == 2
\* Longest --services list given to an inventory run.
MaxServices == 3

\* ------------------------------------------------------------- input values

\* IpAddr values (IPv4, as their four octets).
IpA == <<10, 0, 0, 1>>
IpB == <<8, 8, 8, 8>>
IpC == <<10, 0, 0, 2>>
LookupIps == {IpA, IpB, IpC}

Arns == {"arn:x", "arn:y"}

NoTags == [k \in {} |-> ""]
TagsAB == [k \in {"a", "b"} |-> IF k = "a" THEN "1" ELSE "2"]
TagsA == [k \in {"a"} |-> "1"]

\* serde_json::Value payloads (details); JsonNull is Value::Null.
JsonNull == [null |-> TRUE]
DetailsEc2 == [instance_type |-> "t2.micro"]
DetailsRds == [engine |-> "postgres"]
JsonValues == {DetailsEc2, DetailsRds}

\* The records tried, apart from their arn: an instance with two tags and
\* two addresses (one of them listed twice), a database with one of those
\* tags and one of those addresses, an instance with neither.
Variants ==
    { [name |-> "web", resource_type |-> "ec2:instance",
       region |-> "us-east-1", details |-> DetailsEc2,
       tags |-> TagsAB, ips |-> <<IpA, IpB, IpA>>],
      [name |-> "db", resource_type |-> "rds:db_instance",
       region |-> "eu-west-1", details |-> DetailsRds,
       tags |-> TagsA, ips |-> <<IpA>>],
      [name |-> "bare", resource_type |-> "ec2:instance",
       region |-> "eu-west-1", details |-> DetailsEc2,
       tags |-> NoTags, ips |-> << >>] }

\* inventory::CollectedResource
CollectedResource ==
    { [arn |-> a, name |-> v.name, resource_type |-> v.resource_type,
       region |-> v.region, ips |-> v.ips, tags |-> v.tags,
       details |-> v.details] : a \in Arns, v \in Variants }

Batches == UNION { [1..n -> CollectedResource] : n \in 0..MaxBatchLen }

\* ---------------------------------------------------------------- helpers

Range(s) == { s[i] : i \in DOMAIN s }

SetMax(S) == CHOOSE m \in S : \A x \in S : x <= m

\* IpAddr::to_string for an IPv4 address: dotted decimal.
IpToString(ip) ==
    ToString(ip[1]) \o "." \o ToString(ip[2]) \o "." \o
    ToString(ip[3]) \o "." \o ToString(ip[4])

\* a & b on u16 segments.
RECURSIVE BitAnd(_, _)
BitAnd(a, b) ==
    IF a = 0 \/ b = 0 THEN 0
    ELSE (a % 2) * (b % 2) + 2 * BitAnd(a \div 2, b \div 2)

\* As is_public_V4, but without the is_documentation test.
is_public_V4_no_documentation(ip) ==
    /\ ~(\/ ip[1] = 10
         \/ (ip[1] = 172 /\ ip[2] >= 16 /\ ip[2] <= 31)
         \/ (ip[1] = 192 /\ ip[2] = 168))
    /\ ~(ip[1] = 127)
    /\ ~(ip[1] = 169 /\ ip[2] = 254)
    /\ ~(ip[1] = 255 /\ ip[2] = 255 /\ ip[3] = 255 /\ ip[4] = 255)
    /\ ~(ip[1] = 0 /\ ip[2] = 0 /\ ip[3] = 0 /\ ip[4] = 0)

\* The IpAddr::V4 arm of db::is_public: Ipv4Addr::is_private / is_loopback /
\* is_link_local / is_broadcast / is_documentation / is_unspecified.
is_public_V4(ip) ==
    /\ ~(\/ ip[1] = 10
         \/ (ip[1] = 172 /\ ip[2] >= 16 /\ ip[2] <= 31)
         \/ (ip[1] = 192 /\ ip[2] = 168))
    /\ ~(ip[1] = 127)
    /\ ~(ip[1] = 169 /\ ip[2] = 254)
    /\ ~(ip[1] = 255 /\ ip[2] = 255 /\ ip[3] = 255 /\ ip[4] = 255)
    /\ ~(\/ (ip[1] = 192 /\ ip[2] = 0 /\ ip[3] = 2)
         \/ (ip[1] = 198 /\ ip[2] = 51 /\ ip[3] = 100)
         \/ (ip[1] = 203 /\ ip[2] = 0 /\ ip[3] = 113))
    /\ ~(ip[1] = 0 /\ ip[2] = 0 /\ ip[3] = 0 /\ ip[4] = 0)

\* As is_public_V6, but with the link-local test on the whole first segment
\* (fe80::/16).
is_public_V6_link_local_16(segments) ==
    LET is_unique_local == BitAnd(segments[1], 65024) = 64512
        is_link_local == BitAnd(segments[1], 65535) = 65152
    IN  /\ ~(segments = <<0, 0, 0, 0, 0, 0, 0, 1>>)
        /\ ~(segments = <<0, 0, 0, 0, 0, 0, 0, 0>>)
        /\ ~is_unique_local
        /\ ~is_link_local
        /\ ~(segments[1] = 8193 /\ segments[2] = 3512)

\* The IpAddr::V6 arm of db::is_public, over ipv6.segments(): 0xfe00 = 65024,
\* 0xfc00 = 64512, 0xffc0 = 65472, 0xfe80 = 65152, 0x2001 = 8193,
\* 0xdb8 = 3512.
is_public_V6(segments) ==
    LET is_unique_local == BitAnd(segments[1], 65024) = 64512
        is_link_local == BitAnd(segments[1], 65472) = 65152
    IN  /\ ~(segments = <<0, 0, 0, 0, 0, 0, 0, 1>>)
        /\ ~(segments = <<0, 0, 0, 0, 0, 0, 0, 0>>)
        /\ ~is_unique_local
        /\ ~is_link_local
        /\ ~(segments[1] = 8193 /\ segments[2] = 3512)

\* db::is_public: an IpAddr is its four octets (V4) or its eight segments
\* (V6).
is_public(ip) ==
    IF Len(ip) = 4 THEN is_public_V4(ip) ELSE is_public_V6(ip)

\* rusqlite's ToSql for serde_json::Value: the JSON text of the value.
ToJsonText(v) == ToString(v)

\* serde_json::from_str(..).unwrap_or_default(): the value the text encodes,
\* Value::Null for text that encodes none.
FromJsonText(s) ==
    IF \E v \in JsonValues : ToJsonText(v) = s
    THEN CHOOSE v \in JsonValues : ToJsonText(v) = s
    ELSE JsonNull

\* ------------------------------------------------------------------ state

VARIABLES
    foreign_keys,   \* whether the SQLite build enforces FOREIGN KEY clauses
    db,             \* the committed database: resources, tags, ip_addresses
    tx,             \* the open transaction's view of the database, or NoTx
    pc,             \* "idle" | "tx" | "failed": where save_resources is
    batch,          \* the resources argument of the current/last call
    idx,            \* index of the next resource of the batch to write
    result,         \* "none" | "Ok" | "Err": what the last call returned
    out,            \* what the last read (run_query / identify) returned
    pre,            \* history: db when the current/last call began
    latest,         \* history: arn -> the record last committed for it
    again,          \* history: this call repeats the last call, which
                    \* returned Ok, with the same batch
    run,            \* the inventory run of main: its place and its locals
    api             \* history: what the provider's calls returned to the run

vars == <<foreign_keys, db, tx, pc, batch, idx, result, out, pre, latest,
          again, run, api>>

NoTx == [open |-> FALSE]
NoRecord == [persisted |-> FALSE]
NoOut == [op |-> "none"]

\* init_db: the three empty tables.
EmptyDb == [resources |-> {}, tags |-> {}, ip_addresses |-> {}]

\* No inventory run: the store is used through save_resources and the
\* readers alone.
NoRun == [pc |-> "off"]
NoCalls == [failed |-> {}, returned |-> {}, save_failed |-> FALSE]

\* ----------------------------------------------------- the SQL statements

\* The rowid SQLite gives a new resources row: one more than the largest.
NewRowid(d) ==
    IF d.resources = {} THEN 1
    ELSE SetMax({ x.id : x \in d.resources }) + 1

\* Connection::last_insert_rowid after an insert into resources: the new
\* row holds the largest rowid of the table.
LastInsertRowid(d) == SetMax({ x.id : x \in d.resources })

\* Rows deleted from resources; with foreign keys enforced the
\* ON DELETE CASCADE clauses of tags and ip_addresses delete their rows.
DeleteResources(d, rows) ==
    LET ids == { x.id : x \in rows } IN
    [ resources |-> d.resources \ rows,
      tags |-> IF foreign_keys
               THEN { t \in d.tags : t.resource_id \notin ids }
               ELSE d.tags,
      ip_addresses |-> IF foreign_keys
                       THEN { i \in d.ip_addresses : i.resource_id \notin ids }
                       ELSE d.ip_addresses ]

\* As InsertOrReplaceResource, but an upsert that updates the conflicting row
\* in place, keeping its rowid and so the child rows that point at it.
InsertOrReplaceResource_in_place(d, r) ==
    LET old == { x \in d.resources : x.arn = r.arn }
        id == IF old = {} THEN NewRowid(d) ELSE (CHOOSE x \in old : TRUE).id
    IN  [ d EXCEPT !.resources = (@ \ old) \cup
            { [ id |-> id, arn |-> r.arn, region |-> r.region,
                resource_type |-> r.resource_type, name |-> r.name,
                details |-> ToJsonText(r.details) ] } ]

\* As InsertOrReplaceResource, but INSERT OR IGNORE: a conflicting row stays
\* and the new one is dropped.
InsertOrReplaceResource_ignore(d, r) ==
    IF \E x \in d.resources : x.arn = r.arn THEN d
    ELSE [ d EXCEPT !.resources = @ \cup
            { [ id |-> NewRowid(d), arn |-> r.arn, region |-> r.region,
                resource_type |-> r.resource_type, name |-> r.name,
                details |-> ToJsonText(r.details) ] } ]

\* As InsertOrReplaceResource, but with the rowid chosen after the
\* conflicting row is deleted, so that the rowid of a replaced last row is
\* given out again.
InsertOrReplaceResource_rowid_after_delete(d, r) ==
    LET d1 == DeleteResources(d, { x \in d.resources : x.arn = r.arn })
        id == NewRowid(d1)
    IN  [ d1 EXCEPT !.resources = @ \cup
            { [ id |-> id, arn |-> r.arn, region |-> r.region,
                resource_type |-> r.resource_type, name |-> r.name,
                details |-> ToJsonText(r.details) ] } ]

\* INSERT OR REPLACE INTO resources (arn, region, resource_type, name,
\* details): the row whose arn conflicts (arn is UNIQUE) is deleted, and the
\* new row takes a new rowid.
InsertOrReplaceResource(d, r) ==
    LET id == NewRowid(d)
        d1 == DeleteResources(d, { x \in d.resources : x.arn = r.arn })
    IN  [ d1 EXCEPT !.resources = @ \cup
            { [ id |-> id, arn |-> r.arn, region |-> r.region,
                resource_type |-> r.resource_type, name |-> r.name,
                details |-> ToJsonText(r.details) ] } ]

\* As InsertTags, but with key alone as the primary key of tags: a new row
\* replaces the row of any resource that has the key.
InsertTags_key_only(d, rid, tags, K) ==
    [ d EXCEPT !.tags =
        { t \in @ : t.key \notin K } \cup
        { [ resource_id |-> rid, key |-> k, value |-> tags[k] ] : k \in K } ]

\* INSERT OR REPLACE INTO tags for the keys K of the record's tags;
\* (resource_id, key) is the primary key.
InsertTags(d, rid, tags, K) ==
    [ d EXCEPT !.tags =
        { t \in @ : ~(t.resource_id = rid /\ t.key \in K) } \cup
        { [ resource_id |-> rid, key |-> k, value |-> tags[k] ] : k \in K } ]

\* INSERT OR REPLACE INTO ip_addresses for the first n of the record's ips;
\* (resource_id, ip_address) is the primary key.
InsertIps(d, rid, ips, n) ==
    LET new == { [ resource_id |-> rid, ip_address |-> IpToString(ips[i]),
                   is_public |-> is_public(ips[i]) ] : i \in 1..n }
    IN  [ d EXCEPT !.ip_addresses =
            { x \in @ : \A y \in new :
                ~(x.resource_id = y.resource_id /\ x.ip_address = y.ip_address) }
            \cup new ]

\* One pass of the loop of save_resources: the resource row, its tags, its
\* ips.
WriteResource(d, r) ==
    LET d1 == InsertOrReplaceResource(d, r)
        rid == LastInsertRowid(d1)
    IN  InsertIps(InsertTags(d1, rid, r.tags, DOMAIN r.tags),
                  rid, r.ips, Len(r.ips))

\* The states of the transaction in which one execute of the pass for r has
\* failed: at the resource row, at a tag row, at an ip row.
PartialWrites(d, r) ==
    LET d1 == InsertOrReplaceResource(d, r)
        rid == LastInsertRowid(d1)
        d2 == InsertTags(d1, rid, r.tags, DOMAIN r.tags)
    IN  {d}
        \cup { InsertTags(d1, rid, r.tags, K) :
                  K \in (SUBSET DOMAIN r.tags) \ {DOMAIN r.tags} }
        \cup { InsertIps(d2, rid, r.ips, n) : n \in 0..(Len(r.ips) - 1) }

\* ------------------------------------------------------- history helpers

\* The rows of a database with the surrogate ids left out: each resource
\* row with the tag and ip rows that point at it, and the row counts of the
\* three tables.
Content(d) ==
    [ res |-> { [ arn |-> r.arn, region |-> r.region,
                  resource_type |-> r.resource_type, name |-> r.name,
                  details |-> r.details,
                  tags |-> { <<t.key, t.value>> :
                               t \in { u \in d.tags : u.resource_id = r.id } },
                  ips |-> { <<i.ip_address, i.is_public>> :
                               i \in { u \in d.ip_addresses :
                                          u.resource_id = r.id } } ] :
                r \in d.resources },
      nres |-> Cardinality(d.resources),
      ntags |-> Cardinality(d.tags),
      nips |-> Cardinality(d.ip_addresses) ]

\* arn -> the last record of the batch prefix b[1..n] with that arn, over l.
RECURSIVE LatestAfter(_, _, _)
LatestAfter(l, b, n) ==
    IF n = 0 THEN l
    ELSE [ LatestAfter(l, b, n - 1) EXCEPT ![b[n].arn] = b[n] ]

\* ----------------------------------------------------------- save_resources

Init ==
    /\ foreign_keys \in BOOLEAN
    /\ db = EmptyDb
    /\ tx = NoTx
    /\ pc = "idle"
    /\ batch = << >>
    /\ idx = 1
    /\ result = "none"
    /\ out = NoOut
    /\ pre = EmptyDb
    /\ latest = [a \in Arns |-> NoRecord]
    /\ again = FALSE
    /\ run = NoRun
    /\ api = NoCalls

\* let tx = conn.transaction()?: the call begins with a batch B.
save_resources_begin(B) ==
    /\ pc = "idle"
    /\ NewRowid(db) - 1 + Len(B) <= MaxId
    /\ tx' = db
    /\ batch' = B
    /\ idx' = 1
    /\ pc' = "tx"
    /\ result' = "none"
    /\ out' = NoOut
    /\ pre' = db
    /\ again' = (result = "Ok" /\ B = batch)
    /\ UNCHANGED <<run, api>>
    /\ UNCHANGED <<foreign_keys, db, latest>>

\* One pass of the for loop: every execute of the pass succeeds.
save_resources_row ==
    /\ pc = "tx"
    /\ idx <= Len(batch)
    /\ tx' = WriteResource(tx, batch[idx])
    /\ idx' = idx + 1
    /\ UNCHANGED <<run, api>>
    /\ UNCHANGED <<foreign_keys, db, pc, batch, result, out, pre, latest,
                   again>>

\* One pass of the for loop in which an execute returns Err: the ? leaves
\* the function with the transaction still open.
save_resources_row_fails ==
    /\ pc = "tx"
    /\ idx <= Len(batch)
    /\ \E t \in PartialWrites(tx, batch[idx]) : tx' = t
    /\ pc' = "failed"
    /\ UNCHANGED <<run, api>>
    /\ UNCHANGED <<foreign_keys, db, batch, idx, result, out, pre, latest,
                   again>>

\* As RollbackTx, but a Transaction whose drop behaviour is commit.
RollbackTx_commits ==
    /\ db' = tx
    /\ tx' = NoTx

\* The Transaction is dropped without commit (its drop behaviour is
\* rollback) and the call returns Err.
RollbackTx ==
    /\ db' = db
    /\ tx' = NoTx

save_resources_err ==
    /\ pc = "failed"
    /\ RollbackTx
    /\ pc' = "idle"
    /\ result' = "Err"
    /\ UNCHANGED <<run, api>>
    /\ UNCHANGED <<foreign_keys, batch, idx, out, pre, latest, again>>

\* tx.commit()? succeeds and the call returns Ok(()).
CommitTx ==
    /\ db' = tx
    /\ tx' = NoTx

save_resources_commit ==
    /\ pc = "tx"
    /\ idx > Len(batch)
    /\ CommitTx
    /\ pc' = "idle"
    /\ result' = "Ok"
    /\ latest' = LatestAfter(latest, batch, Len(batch))
    /\ UNCHANGED <<run, api>>
    /\ UNCHANGED <<foreign_keys, batch, idx, out, pre, again>>

\* tx.commit()? returns Err: nothing of the transaction is committed.
save_resources_commit_fails ==
    /\ pc = "tx"
    /\ idx > Len(batch)
    /\ RollbackTx
    /\ pc' = "idle"
    /\ result' = "Err"
    /\ UNCHANGED <<run, api>>
    /\ UNCHANGED <<foreign_keys, batch, idx, out, pre, latest, again>>

\* ------------------------------------------------------------- the readers

\* The orders in which the engine may hand out the members of a set of rows
\* selected without ORDER BY.
Orderings(S) ==
    { s \in [1..Cardinality(S) -> S] :
        \A i, j \in 1..Cardinality(S) : i # j => s[i] # s[j] }

\* query::map_service_name
map_service_name(short_name) ==
    CASE short_name = "rds" -> "rds:db_instance"
      [] short_name = "dynamodb" -> "dynamodb:table"
      [] short_name = "elasticache" -> "elasticache:cluster"
      [] short_name = "ec2" -> "ec2:instance"
      [] short_name = "elb" -> "elbv2:loadbalancer"
      [] short_name = "eks" -> "eks:pod"
      [] short_name = "route53" -> "route53:hostedzone"
      [] OTHER -> short_name

ServiceFilters ==
    { << >>, <<"ec2">>, <<"rds">>, <<"ec2", "rds:db_instance">>, <<"s3">> }
RegionFilters ==
    { << >>, <<"us-east-1">>, <<"eu-west-1">>, <<"us-east-1", "ap-south-1">> }

\* As QueryWhere, but with the two filters joined by OR.
QueryWhere_either(r, services, regions) ==
    \/ (services = << >> /\ regions = << >>)
    \/ (services # << >> /\
          r.resource_type \in { map_service_name(x) : x \in Range(services) })
    \/ (regions # << >> /\ r.region \in Range(regions))

\* WHERE 1=1 [AND resource_type IN (..)] [AND region IN (..)]
QueryWhere(r, services, regions) ==
    /\ (services # << >> =>
          r.resource_type \in { map_service_name(x) : x \in Range(services) })
    /\ (regions # << >> => r.region \in Range(regions))

\* As TagsObject, but with the subquery not correlated to r.id.
TagsObject_uncorrelated(d, id) ==
    [ k \in { t.key : t \in d.tags } |->
        (CHOOSE t \in d.tags : t.key = k).value ]

\* (SELECT json_group_object(key, value) FROM tags WHERE resource_id = r.id)
\* parsed by serde_json::from_str: the object of the resource's tag rows.
TagsObject(d, id) ==
    LET rows == { t \in d.tags : t.resource_id = id } IN
    [ k \in { t.key : t \in rows } |->
        (CHOOSE t \in rows : t.key = k).value ]

\* COALESCE(GROUP_CONCAT(i.ip_address), '') over the LEFT JOIN, split at
\* ',': the ip_address of every ip row of the resource, in the engine's order.
IpLists(d, id) ==
    Orderings({ i.ip_address :
                  i \in { u \in d.ip_addresses : u.resource_id = id } })

\* query::Resource built from one row of the result.
ResourceOf(d, r, ips) ==
    [ arn |-> r.arn, name |-> r.name, resource_type |-> r.resource_type,
      region |-> r.region, ips |-> ips, tags |-> TagsObject(d, r.id),
      details |-> FromJsonText(r.details) ]

\* What run_query may return: one Resource per group (GROUP BY r.id, ..) of
\* the rows the WHERE clause keeps, in the engine's order.
QueryOutputs(d, services, regions) ==
    LET rows == { r \in d.resources : QueryWhere(r, services, regions) }
        views == UNION { { ResourceOf(d, r, l) : l \in IpLists(d, r.id) } :
                         r \in rows }
    IN  { q \in [1..Cardinality(rows) -> views] :
            \A i, j \in 1..Cardinality(rows) : i # j => q[i].arn # q[j].arn }

\* As run_query, but a listing that first deletes the tag and ip rows no
\* resource row owns.
run_query_cleans_up(services, regions) ==
    /\ pc = "idle"
    /\ out = NoOut
    /\ db' = [ db EXCEPT
                 !.tags = { t \in @ :
                              \E r \in db.resources : r.id = t.resource_id },
                 !.ip_addresses = { i \in @ :
                              \E r \in db.resources : r.id = i.resource_id } ]
    /\ \E q \in QueryOutputs(db, services, regions) :
          out' = [ op |-> "query", services |-> services,
                   regions |-> regions, results |-> q ]
    /\ UNCHANGED <<run, api>>
    /\ UNCHANGED <<foreign_keys, tx, pc, batch, idx, result, pre, latest,
                   again>>

\* The runs tried put one listing between two writes: a listing changes
\* nothing that a later read sees.
run_query(services, regions) ==
    /\ pc = "idle"
    /\ out = NoOut
    /\ \E q \in QueryOutputs(db, services, regions) :
          out' = [ op |-> "query", services |-> services,
                   regions |-> regions, results |-> q ]
    /\ UNCHANGED <<run, api>>
    /\ UNCHANGED <<foreign_keys, db, tx, pc, batch, idx, result, pre, latest,
                   again>>

\* As IdentifyRows, but with the join condition left out.
IdentifyRows_cross_join(d, ip) ==
    { r \in d.resources :
        \E i \in d.ip_addresses : i.ip_address = IpToString(ip) }

\* The rows of resources r JOIN ip_addresses i ON r.id = i.resource_id
\* WHERE i.ip_address = ?1.
IdentifyRows(d, ip) ==
    { r \in d.resources :
        \E i \in d.ip_addresses :
            i.resource_id = r.id /\ i.ip_address = IpToString(ip) }

\* format!("IP: {} - Type: {}, Name: {}, Region: {}, ARN/ID: {}", ..)
FormatIdentify(ip, r) ==
    "IP: " \o IpToString(ip) \o " - Type: " \o r.resource_type \o
    ", Name: " \o r.name \o ", Region: " \o r.region \o
    ", ARN/ID: " \o r.arn

NotFound == "None"

\* What query_row(..).ok() may be: the first row the engine hands out, None
\* when the statement has no row.
IdentifyOutputs(d, ip) ==
    IF IdentifyRows(d, ip) = {} THEN {NotFound}
    ELSE { FormatIdentify(ip, r) : r \in IdentifyRows(d, ip) }

\* The runs tried put lookups of one address between two writes.
identify_resource_from_db(ip) ==
    /\ pc = "idle"
    /\ (out = NoOut \/ (out.op = "identify" /\ out.ip = ip))
    /\ \E f \in IdentifyOutputs(db, ip) :
          out' = [ op |-> "identify", ip |-> ip, found |-> f ]
    /\ UNCHANGED <<run, api>>
    /\ UNCHANGED <<foreign_keys, db, tx, pc, batch, idx, result, pre, latest,
                   again>>

\* -------------------------------------------------------- specifications

\* save_resources taken step by step: the store under one writer.
Next ==
    \/ \E B \in Batches : save_resources_begin(B)
    \/ save_resources_row
    \/ save_resources_row_fails
    \/ save_resources_err
    \/ save_resources_commit
    \/ save_resources_commit_fails

Spec == Init /\ [][Next]_vars

\* The whole loop of save_resources over the batch b[1..n].
RECURSIVE ApplyBatch(_, _, _)
ApplyBatch(d, b, n) ==
    IF n = 0 THEN d
    ELSE WriteResource(ApplyBatch(d, b, n - 1), b[n])

\* One whole call of save_resources: Ok with the batch committed, or Err
\* with the transaction rolled back.
save_resources(B) ==
    /\ NewRowid(db) - 1 + Len(B) <= MaxId
    /\ \/ /\ db' = ApplyBatch(db, B, Len(B))
          /\ latest' = LatestAfter(latest, B, Len(B))
          /\ result' = "Ok"
       \/ /\ db' = db
          /\ latest' = latest
          /\ result' = "Err"
    /\ out' = NoOut
    /\ UNCHANGED <<run, api>>
    /\ UNCHANGED <<foreign_keys, tx, pc, batch, idx, pre, again>>

\* The store written by whole calls of save_resources and read by
\* run_query and identify_resource_from_db.
NextQuery ==
    \/ \E B \in Batches : save_resources(B)
    \/ \E s \in ServiceFilters, g \in RegionFilters : run_query(s, g)
    \/ \E ip \in LookupIps : identify_resource_from_db(ip)

SpecQuery == Init /\ [][NextQuery]_vars

\* The addresses is_public is tried on: IPv4 addresses around every range
\* the V4 arm tests, IPv6 addresses around every prefix the V6 arm tests.
V4Inputs ==
    { <<a, b, c, d>> :
        a \in {0, 8, 9, 10, 11, 126, 127, 128, 169, 172, 192, 198, 203, 255},
        b \in {0, 15, 16, 31, 32, 51, 168, 254, 255},
        c \in {0, 2, 100, 113, 255},
        d \in {0, 1, 5, 8, 255} }

V6Inputs ==
    { <<a, b, c, 0, 0, 0, 0, h>> :
        a \in {0, 1, 8192, 8193, 8194, 64511, 64512, 64768, 65023, 65024,
               65151, 65152, 65153, 65215, 65216, 65279, 65535},
        b \in {0, 3511, 3512, 3513, 18528},
        c \in {0, 18528},
        h \in {0, 1, 2, 34952} }

\* is_public(ip) is computed for one address (one per run tried).
classify(ip) ==
    /\ out = NoOut
    /\ out' = [ op |-> "is_public", ip |-> ip, public |-> is_public(ip) ]
    /\ UNCHANGED <<run, api>>
    /\ UNCHANGED <<foreign_keys, db, tx, pc, batch, idx, result, pre, latest,
                   again>>

NextIp == \E ip \in V4Inputs \cup V6Inputs : classify(ip)

\* is_public applied to the addresses of V4Inputs and V6Inputs.
SpecIp == Init /\ [][NextIp]_vars

\* --------------------------------------------- readers beside the writer

\* As ReaderView, but a reader that sees the writes of the open transaction.
ReaderView_uncommitted == IF pc \in {"tx", "failed"} THEN tx ELSE db

\* What a statement sees on a connection of its own (run_query and
\* identify_resource_from_db open one per call): the committed database.
ReaderView == db

\* run_query called (by the query handler of the server, or by the query
\* command) while a save_resources call is running, once per call.
concurrent_run_query(services, regions) ==
    /\ pc \in {"tx", "failed"}
    /\ out = NoOut
    /\ \E q \in QueryOutputs(ReaderView, services, regions) :
          out' = [ op |-> "query", services |-> services,
                   regions |-> regions, results |-> q ]
    /\ UNCHANGED <<run, api>>
    /\ UNCHANGED <<foreign_keys, db, tx, pc, batch, idx, result, pre, latest,
                   again>>

\* identify_resource_from_db called while a save_resources call is running,
\* once per call.
concurrent_identify(ip) ==
    /\ pc \in {"tx", "failed"}
    /\ out = NoOut
    /\ \E f \in IdentifyOutputs(ReaderView, ip) :
          out' = [ op |-> "identify", ip |-> ip, found |-> f ]
    /\ UNCHANGED <<run, api>>
    /\ UNCHANGED <<foreign_keys, db, tx, pc, batch, idx, result, pre, latest,
                   again>>

\* The listing and the lookup tried beside the writer.
ConcurrentServiceFilters == { << >> }
ConcurrentLookupIps == {IpA}

\* A call that begins forgets the last read, so the calls tried begin from
\* the states in which none has been made.
NextConcurrent ==
    \/ \E B \in Batches : out = NoOut /\ save_resources_begin(B)
    \/ save_resources_row
    \/ save_resources_row_fails
    \/ save_resources_err
    \/ save_resources_commit
    \/ save_resources_commit_fails
    \/ \E s \in ConcurrentServiceFilters : concurrent_run_query(s, << >>)
    \/ \E ip \in ConcurrentLookupIps : concurrent_identify(ip)

\* save_resources step by step with a reader beside it.
SpecConcurrent == Init /\ [][NextConcurrent]_vars

\* ------------------------------------------------------- the inventory run

\* Option<T>
None == [is_some |-> FALSE]
Some(v) == [is_some |-> TRUE, v |-> v]
unwrap_or_default(o) == IF o.is_some THEN o.v ELSE ""

\* str::parse::<IpAddr>: the address a string spells, None for any other.
ParseIp(x) ==
    IF \E ip \in LookupIps : IpToString(ip) = x
    THEN Some(CHOOSE ip \in LookupIps : IpToString(ip) = x)
    ELSE None

\* regions_to_scan and the collectors main builds from services_to_run.
RegionsToScan == <<"us-east-1", "eu-west-1", "ap-south-1">>
CollectorLists == { <<"ec2">>, <<"rds", "ec2">> }

\* What one page of describe_instances may hold in a region: an instance
\* with an id, a Name tag and a private address (on the first page), or one
\* without an id and with an address that does not parse (on any page).
Ec2Instances(region, n) ==
    (IF n = 1
     THEN { [ instance_id |-> Some("i-" \o region \o "-" \o ToString(n)),
              private_ip_address |-> Some("10.0.0.1"),
              public_ip_address |-> None,
              tags |-> << [key |-> Some("Name"), value |-> Some("web")] >>,
              instance_type |-> Some("t2.micro") ] }
     ELSE {})
    \cup
    { [ instance_id |-> None,
        private_ip_address |-> Some("not-an-ip"),
        public_ip_address |-> Some("8.8.8.8"),
        tags |-> << >>,
        instance_type |-> None ] }

\* What one page of describe_db_instances may hold in a region: on the
\* first page a database with an arn, on a later page one for which the
\* provider returned none.
RdsInstances(region, n) ==
    IF n = 1
    THEN { [ db_instance_arn |->
                 Some("arn:aws:rds:" \o region \o ":db-" \o ToString(n)),
             db_instance_identifier |-> Some("db-" \o ToString(n)),
             tag_list |-> << [key |-> Some("env"), value |-> None] >>,
             engine |-> Some("postgres") ] }
    ELSE { [ db_instance_arn |-> None,
             db_instance_identifier |-> Some("db-" \o ToString(n)),
             tag_list |-> << >>,
             engine |-> None ] }

\* .map(|t| (t.key.unwrap_or_default(), t.value.unwrap_or_default()))
\* .collect() into a HashMap: a later tag of the same key wins.
TagMap(list) ==
    [ k \in { unwrap_or_default(list[i].key) : i \in DOMAIN list } |->
        LET last == SetMax({ i \in DOMAIN list :
                               unwrap_or_default(list[i].key) = k })
        IN  unwrap_or_default(list[last].value) ]

\* The addresses of an instance that parse, private before public.
Ec2Ips(inst) ==
    LET priv == IF inst.private_ip_address.is_some
                THEN ParseIp(inst.private_ip_address.v) ELSE None
        publ == IF inst.public_ip_address.is_some
                THEN ParseIp(inst.public_ip_address.v) ELSE None
    IN  (IF priv.is_some THEN <<priv.v>> ELSE << >>) \o
        (IF publ.is_some THEN <<publ.v>> ELSE << >>)

\* The CollectedResource Ec2Collector::collect pushes for an instance.
Ec2Resource(region, inst) ==
    LET tags == TagMap(inst.tags) IN
    [ arn |-> unwrap_or_default(inst.instance_id),
      name |-> IF "Name" \in DOMAIN tags THEN tags["Name"]
               ELSE unwrap_or_default(inst.instance_id),
      resource_type |-> "ec2:instance",
      region |-> region,
      ips |-> Ec2Ips(inst),
      tags |-> tags,
      details |-> [instance_type |-> inst.instance_type] ]

\* The CollectedResource RdsCollector::collect pushes for a db instance.
RdsResource(region, dbi) ==
    [ arn |-> unwrap_or_default(dbi.db_instance_arn),
      name |-> unwrap_or_default(dbi.db_instance_identifier),
      resource_type |-> "rds:db_instance",
      region |-> region,
      ips |-> << >>,
      tags |-> TagMap(dbi.tag_list),
      details |-> [engine |-> dbi.engine] ]

\* The records one Ok page of the collector's paginator may add.
PageResources(service, region, n) ==
    IF service = "ec2"
    THEN { Ec2Resource(region, x) : x \in Ec2Instances(region, n) }
    ELSE { RdsResource(region, x) : x \in RdsInstances(region, n) }

InitRun ==
    /\ foreign_keys \in BOOLEAN
    /\ db = EmptyDb
    /\ tx = NoTx
    /\ pc = "idle"
    /\ batch = << >>
    /\ idx = 1
    /\ result = "none"
    /\ out = NoOut
    /\ pre = EmptyDb
    /\ latest = [a \in Arns |-> NoRecord]
    /\ again = FALSE
    /\ run \in { [ pc |-> "main", collectors |-> c, regions |-> RegionsToScan,
                    ci |-> 1, ri |-> 1, pages |-> 0, all_resources |-> << >>,
                    total_resources |-> 0, exit |-> "running" ] :
                  c \in CollectorLists }
    /\ api = NoCalls

storeVars == <<foreign_keys, tx, pc, batch, idx, result, out, pre, latest, again>>

\* for collector in collectors: collector.collect(..) is called.
main_next_collector ==
    /\ run.pc = "main"
    /\ run.ci <= Len(run.collectors)
    /\ run' = [run EXCEPT !.pc = "collect", !.ri = 1, !.pages = 0,
                          !.all_resources = << >>]
    /\ UNCHANGED <<db, api>>
    /\ UNCHANGED storeVars

\* stream.next() yields Some(Ok(page)): the page's items are pushed.
collect_page ==
    /\ run.pc = "collect"
    /\ run.ri <= Len(run.regions)
    /\ run.pages < MaxPages
    /\ LET service == run.collectors[run.ci]
           region == run.regions[run.ri]
       IN  \E r \in PageResources(service, region, run.pages + 1) :
             /\ run' = [run EXCEPT !.pages = @ + 1,
                                   !.all_resources = Append(@, r)]
             /\ api' = [api EXCEPT !.returned = @ \cup
                         { [service |-> service, region |-> region,
                            arn |-> r.arn] }]
    /\ UNCHANGED db
    /\ UNCHANGED storeVars

\* stream.next() yields Some(Err(e)): result? returns the error from
\* collect, and the ? of main returns it from main.
collect_page_err ==
    /\ run.pc = "collect"
    /\ run.ri <= Len(run.regions)
    /\ run.pages < MaxPages
    /\ run' = [run EXCEPT !.pc = "done", !.exit = "error"]
    /\ api' = [api EXCEPT !.failed = @ \cup
                { <<run.collectors[run.ci], run.regions[run.ri]>> }]
    /\ UNCHANGED db
    /\ UNCHANGED storeVars

\* stream.next() yields None: the loop goes on to the next region.
collect_region_done ==
    /\ run.pc = "collect"
    /\ run.ri <= Len(run.regions)
    /\ run' = [run EXCEPT !.ri = @ + 1, !.pages = 0]
    /\ UNCHANGED <<db, api>>
    /\ UNCHANGED storeVars

\* Ok(all_resources): collect returns to main.
collect_return ==
    /\ run.pc = "collect"
    /\ run.ri > Len(run.regions)
    /\ run' = [run EXCEPT !.pc = "save"]
    /\ UNCHANGED <<db, api>>
    /\ UNCHANGED storeVars

\* As main_save, but the batch is kept for a flush at the end of the run
\* instead of being saved before the next collector starts.
main_save_deferred ==
    /\ run.pc = "save"
    /\ run' = [run EXCEPT !.pc = "main", !.ci = @ + 1,
                          !.total_resources = @ + Len(run.all_resources)]
    /\ UNCHANGED <<db, api>>
    /\ UNCHANGED storeVars

\* As main_save, but an Err of save_resources is reported and the loop goes
\* on to the next collector.
main_save_continues ==
    /\ run.pc = "save"
    /\ LET count == Len(run.all_resources) IN
       IF count > 0
       THEN \/ /\ db' = ApplyBatch(db, run.all_resources, count)
               /\ run' = [run EXCEPT !.pc = "main", !.ci = @ + 1,
                                     !.total_resources = @ + count]
               /\ api' = api
            \/ /\ db' = db
               /\ run' = [run EXCEPT !.pc = "main", !.ci = @ + 1]
               /\ api' = [api EXCEPT !.save_failed = TRUE]
       ELSE /\ db' = db
            /\ run' = [run EXCEPT !.pc = "main", !.ci = @ + 1]
            /\ api' = api
    /\ UNCHANGED storeVars

\* if count > 0 { save_resources(&mut conn, &resources)?;
\* total_resources += count; }
main_save ==
    /\ run.pc = "save"
    /\ LET count == Len(run.all_resources) IN
       IF count > 0
       THEN \/ /\ db' = ApplyBatch(db, run.all_resources, count)
               /\ run' = [run EXCEPT !.pc = "main", !.ci = @ + 1,
                                     !.total_resources = @ + count]
               /\ api' = api
            \/ /\ db' = db
               /\ run' = [run EXCEPT !.pc = "done", !.exit = "error"]
               /\ api' = [api EXCEPT !.save_failed = TRUE]
       ELSE /\ db' = db
            /\ run' = [run EXCEPT !.pc = "main", !.ci = @ + 1]
            /\ api' = api
    /\ UNCHANGED storeVars

\* The loop is over: the total is printed and main returns Ok(()).
main_done ==
    /\ run.pc = "main"
    /\ run.ci > Len(run.collectors)
    /\ run' = [run EXCEPT !.pc = "done", !.exit = "ok"]
    /\ UNCHANGED <<db, api>>
    /\ UNCHANGED storeVars

NextRun ==
    \/ main_next_collector
    \/ collect_page
    \/ collect_page_err
    \/ collect_region_done
    \/ collect_return
    \/ main_save
    \/ main_done

\* One inventory run of main over three regions.
SpecRun == InitRun /\ [][NextRun]_vars

\* ------------------------------------------- the load-balancer collector

\* region_lbs.chunks(20)
ElbTagChunk == 20

\* The numbers of load balancers describe_load_balancers is tried with for a
\* region: none, one, a full chunk, a full chunk and one more.
LbCounts == {0, 1, ElbTagChunk, ElbTagChunk + 1}

\* The i-th load balancer of a region. The first one has addresses, one of
\* which does not parse; in ap-south-1 the provider returned no arn for it.
LoadBalancer(region, i) ==
    [ load_balancer_arn |->
          IF region = "ap-south-1" /\ i = 1 THEN None
          ELSE Some("arn:aws:elb:" \o region \o ":lb-" \o ToString(i)),
      load_balancer_name |-> Some("lb-" \o ToString(i)),
      addresses |-> IF i = 1 THEN <<Some("10.0.0.2"), Some("not-an-ip"), None>>
                    ELSE << >>,
      dns_name |-> None ]

\* The number of chunks of n load balancers.
NumChunks(n) == (n + ElbTagChunk - 1) \div ElbTagChunk

\* As ChunkIndices, but with chunks that start at the last index of the one
\* before.
ChunkIndices_overlapping(n, k) ==
    { i \in 1..n : (k - 1) * ElbTagChunk <= i /\ i <= k * ElbTagChunk }

\* The indices of the k-th chunk of n load balancers.
ChunkIndices(n, k) ==
    { i \in 1..n : (k - 1) * ElbTagChunk < i /\ i <= k * ElbTagChunk }

\* lb_chunk.iter().filter_map(|lb| lb.load_balancer_arn.clone()): the arns
\* of the k-th chunk.
ChunkArns(lbs, k) ==
    { lbs[i].load_balancer_arn.v :
        i \in { j \in ChunkIndices(Len(lbs), k) :
                  lbs[j].load_balancer_arn.is_some } }

\* The tags describe_tags returns for a load balancer.
ElbTags == [k \in {"env"} |-> "prod"]

\* The addresses of a load balancer that are present and parse, in order.
RECURSIVE ElbIps(_, _)
ElbIps(addrs, n) ==
    IF n = 0 THEN << >>
    ELSE LET p == IF addrs[n].is_some THEN ParseIp(addrs[n].v) ELSE None
         IN  ElbIps(addrs, n - 1) \o (IF p.is_some THEN <<p.v>> ELSE << >>)

\* The CollectedResource ElbCollector::collect pushes for a load balancer.
ElbResource(region, lb, tags_map) ==
    LET arn == unwrap_or_default(lb.load_balancer_arn) IN
    [ arn |-> arn,
      name |-> unwrap_or_default(lb.load_balancer_name),
      resource_type |-> "elbv2:loadbalancer",
      region |-> region,
      ips |-> ElbIps(lb.addresses, Len(lb.addresses)),
      tags |-> IF arn \in DOMAIN tags_map THEN tags_map[arn] ELSE NoTags,
      details |-> [dns_name |-> lb.dns_name] ]

NoTagsMap == [a \in {} |-> NoTags]

InitElb ==
    /\ foreign_keys \in BOOLEAN
    /\ db = EmptyDb
    /\ tx = NoTx
    /\ pc = "idle"
    /\ batch = << >>
    /\ idx = 1
    /\ result = "none"
    /\ out = NoOut
    /\ pre = EmptyDb
    /\ latest = [a \in Arns |-> NoRecord]
    /\ again = FALSE
    /\ run = [ pc |-> "list", regions |-> RegionsToScan, ri |-> 1,
               region_lbs |-> << >>, chunk |-> 1, tags_map |-> NoTagsMap,
               all_resources |-> << >>, total_resources |-> 0,
               exit |-> "running" ]
    /\ api = [ listed |-> {}, tag_calls |-> {}, tags_failed |-> {},
               list_failed |-> FALSE,
               save_failed |-> FALSE ]

\* The describe_load_balancers pages of the region are read; a region
\* without load balancers is left with continue.
elb_describe_load_balancers ==
    /\ run.pc = "list"
    /\ run.ri <= Len(run.regions)
    /\ \E n \in LbCounts :
          LET region == run.regions[run.ri]
              lbs == [i \in 1..n |-> LoadBalancer(region, i)]
          IN  /\ run' = IF n = 0
                        THEN [run EXCEPT !.ri = @ + 1, !.region_lbs = << >>]
                        ELSE [run EXCEPT !.pc = "tags", !.region_lbs = lbs,
                                         !.chunk = 1, !.tags_map = NoTagsMap]
              /\ api' = [api EXCEPT !.listed = @ \cup
                          { [region |-> region, i |-> i,
                             arn |-> unwrap_or_default(lbs[i].load_balancer_arn)] :
                            i \in 1..n }]
    /\ UNCHANGED db
    /\ UNCHANGED storeVars

\* A page of describe_load_balancers is Err: result? returns it from
\* collect and the ? of main from main.
elb_describe_load_balancers_err ==
    /\ run.pc = "list"
    /\ run.ri <= Len(run.regions)
    /\ run' = [run EXCEPT !.pc = "done", !.exit = "error"]
    /\ api' = [api EXCEPT !.list_failed = TRUE]
    /\ UNCHANGED db
    /\ UNCHANGED storeVars

\* A chunk none of whose load balancers has an arn: continue.
elb_chunk_without_arns ==
    /\ run.pc = "tags"
    /\ run.chunk <= NumChunks(Len(run.region_lbs))
    /\ ChunkArns(run.region_lbs, run.chunk) = {}
    /\ run' = [run EXCEPT !.chunk = @ + 1]
    /\ UNCHANGED <<db, api>>
    /\ UNCHANGED storeVars

\* describe_tags for the arns of a chunk returns Ok: tags_map gets the tags
\* of every tag description.
elb_describe_tags ==
    /\ run.pc = "tags"
    /\ run.chunk <= NumChunks(Len(run.region_lbs))
    /\ ChunkArns(run.region_lbs, run.chunk) # {}
    /\ run' = [run EXCEPT
                 !.chunk = @ + 1,
                 !.tags_map =
                     [a \in DOMAIN @ \cup ChunkArns(run.region_lbs, run.chunk) |->
                        IF a \in ChunkArns(run.region_lbs, run.chunk)
                        THEN ElbTags ELSE @[a]]]
    /\ api' = [api EXCEPT !.tag_calls = @ \cup
                { [ region |-> run.regions[run.ri], chunk |-> run.chunk,
                    arns |-> ChunkArns(run.region_lbs, run.chunk) ] }]
    /\ UNCHANGED db
    /\ UNCHANGED storeVars

\* describe_tags for the arns of a chunk returns Err: .await? returns it
\* from collect and the ? of main from main.
elb_describe_tags_err ==
    /\ run.pc = "tags"
    /\ run.chunk <= NumChunks(Len(run.region_lbs))
    /\ ChunkArns(run.region_lbs, run.chunk) # {}
    /\ run' = [run EXCEPT !.pc = "done", !.exit = "error"]
    /\ api' = [api EXCEPT
                 !.tags_failed = @ \cup { <<run.regions[run.ri], run.chunk>> },
                 !.tag_calls = @ \cup
                     { [ region |-> run.regions[run.ri], chunk |-> run.chunk,
                         arns |-> ChunkArns(run.region_lbs, run.chunk) ] }]
    /\ UNCHANGED db
    /\ UNCHANGED storeVars

\* for lb in region_lbs: one CollectedResource per load balancer is pushed,
\* and the loop goes on to the next region.
elb_push_resources ==
    /\ run.pc = "tags"
    /\ run.chunk > NumChunks(Len(run.region_lbs))
    /\ run' = [run EXCEPT
                 !.pc = "list", !.ri = @ + 1, !.region_lbs = << >>,
                 !.all_resources = @ \o
                     [i \in 1..Len(run.region_lbs) |->
                        ElbResource(run.regions[run.ri], run.region_lbs[i],
                                    run.tags_map)]]
    /\ UNCHANGED <<db, api>>
    /\ UNCHANGED storeVars

\* Ok(all_resources) returns to main: a batch that is not empty is handed to
\* save_resources, which opens its transaction; with an empty one main
\* prints the total and returns.
elb_main_save ==
    /\ run.pc = "list"
    /\ run.ri > Len(run.regions)
    /\ IF Len(run.all_resources) > 0
       THEN /\ run' = [run EXCEPT !.pc = "save"]
            /\ tx' = db
            /\ idx' = 1
       ELSE /\ run' = [run EXCEPT !.pc = "done", !.exit = "ok"]
            /\ UNCHANGED <<tx, idx>>
    /\ UNCHANGED <<db, api>>
    /\ UNCHANGED <<foreign_keys, pc, batch, result, out, pre, latest, again>>

\* One pass of the loop of save_resources over the collector's batch.
elb_save_row ==
    /\ run.pc = "save"
    /\ idx <= Len(run.all_resources)
    /\ tx' = WriteResource(tx, run.all_resources[idx])
    /\ idx' = idx + 1
    /\ UNCHANGED <<db, run, api>>
    /\ UNCHANGED <<foreign_keys, pc, batch, result, out, pre, latest, again>>

\* An execute or the commit of save_resources returns Err: the transaction
\* is rolled back and the ? of main returns the error.
elb_save_err ==
    /\ run.pc = "save"
    /\ RollbackTx
    /\ run' = [run EXCEPT !.pc = "done", !.exit = "error"]
    /\ api' = [api EXCEPT !.save_failed = TRUE]
    /\ UNCHANGED <<foreign_keys, pc, batch, idx, result, out, pre, latest,
                   again>>

\* save_resources commits and returns Ok: main adds the count, prints the
\* total and returns.
elb_save_commit ==
    /\ run.pc = "save"
    /\ idx > Len(run.all_resources)
    /\ CommitTx
    /\ run' = [run EXCEPT !.pc = "done", !.exit = "ok",
                          !.total_resources = @ + Len(run.all_resources)]
    /\ UNCHANGED api
    /\ UNCHANGED <<foreign_keys, pc, batch, idx, result, out, pre, latest,
                   again>>

NextElb ==
    \/ elb_describe_load_balancers
    \/ elb_describe_load_balancers_err
    \/ elb_chunk_without_arns
    \/ elb_describe_tags
    \/ elb_describe_tags_err
    \/ elb_push_resources
    \/ elb_main_save
    \/ elb_save_row
    \/ elb_save_err
    \/ elb_save_commit

\* One inventory run of main with the load-balancer collector alone.
SpecElb == InitElb /\ [][NextElb]_vars

\* ------------------------------------------------------ the EKS collector

\* --eks-clusters: no selection (the clusters are discovered per region) or
\* two selected clusters.
ClustersToScan == { << >>, <<"c1", "c2">> }

\* What list_clusters may return for a region.
DiscoveredClusters == { << >>, <<"c1">>, <<"c1", "c2">> }

\* The ways in which the pass for a cluster ends with continue: the
\* ServiceError arm (resource not found or another service error), the other
\* Err arm, no endpoint, no certificate authority data, pods.list Err.
SkipReasons ==
    { "not_found", "service_error", "sdk_error", "no_endpoint", "no_ca_data",
      "pod_list_error" }

\* The calls whose Err leaves collect through ?.
FatalReasons == { "kubeconfig_error", "client_error" }

\* The pods pods.list returns for a cluster: one with an address and a
\* label, one without status, one whose pod_ip does not parse.
PodList ==
    << [ name |-> "web-0", namespace |-> Some("default"),
         pod_ip |-> Some("10.0.0.1"), has_status |-> TRUE,
         labels |-> Some([k \in {"app"} |-> "web"]) ],
       [ name |-> "pending-0", namespace |-> None,
         pod_ip |-> None, has_status |-> FALSE, labels |-> None ],
       [ name |-> "odd-0", namespace |-> Some("default"),
         pod_ip |-> Some("not-an-ip"), has_status |-> TRUE,
         labels |-> None ] >>

\* The CollectedResource EksCollector::collect pushes for a pod with an
\* address that parses.
PodResource(region, cluster_name, pod) ==
    [ arn |-> region \o "/" \o cluster_name \o "/" \o
              unwrap_or_default(pod.namespace) \o "/" \o pod.name,
      name |-> pod.name,
      resource_type |-> "eks:pod",
      region |-> region,
      ips |-> <<ParseIp(pod.pod_ip.v).v>>,
      tags |-> IF pod.labels.is_some THEN pod.labels.v ELSE NoTags,
      details |-> [ cluster |-> cluster_name,
                    namespace |-> unwrap_or_default(pod.namespace) ] ]

\* The records pushed for the first n pods of a list.
RECURSIVE PodResources(_, _, _, _)
PodResources(region, cluster_name, pods, n) ==
    IF n = 0 THEN << >>
    ELSE PodResources(region, cluster_name, pods, n - 1) \o
         (IF /\ pods[n].has_status
             /\ pods[n].pod_ip.is_some
             /\ ParseIp(pods[n].pod_ip.v).is_some
          THEN <<PodResource(region, cluster_name, pods[n])>>
          ELSE << >>)

InitEks ==
    /\ foreign_keys \in BOOLEAN
    /\ db = EmptyDb
    /\ tx = NoTx
    /\ pc = "idle"
    /\ batch = << >>
    /\ idx = 1
    /\ result = "none"
    /\ out = NoOut
    /\ pre = EmptyDb
    /\ latest = [a \in Arns |-> NoRecord]
    /\ again = FALSE
    /\ run \in { [ pc |-> "region", regions |-> RegionsToScan, ri |-> 1,
                    clusters_to_scan |-> c, clusters_to_process |-> << >>,
                    ki |-> 1, all_resources |-> << >>,
                    total_resources |-> 0, exit |-> "running" ] :
                  c \in ClustersToScan }
    /\ api = [ skipped |-> {}, fetched |-> {}, cluster_failed |-> {},
               list_failed |-> FALSE, save_failed |-> FALSE ]

\* clusters_to_process: the selected clusters, or those list_clusters
\* returns for the region.
eks_clusters_to_process ==
    /\ run.pc = "region"
    /\ run.ri <= Len(run.regions)
    /\ \E d \in DiscoveredClusters :
          run' = [run EXCEPT
                    !.pc = "cluster", !.ki = 1,
                    !.clusters_to_process =
                        IF run.clusters_to_scan = << >> THEN d
                        ELSE run.clusters_to_scan]
    /\ UNCHANGED <<db, api>>
    /\ UNCHANGED storeVars

\* A page of list_clusters is Err: result? returns it from collect and the
\* ? of main from main.
eks_list_clusters_err ==
    /\ run.pc = "region"
    /\ run.ri <= Len(run.regions)
    /\ run.clusters_to_scan = << >>
    /\ run' = [run EXCEPT !.pc = "done", !.exit = "error"]
    /\ api' = [api EXCEPT !.list_failed = TRUE]
    /\ UNCHANGED db
    /\ UNCHANGED storeVars

\* The pass for a cluster ends with continue.
eks_cluster_skipped ==
    /\ run.pc = "cluster"
    /\ run.ki <= Len(run.clusters_to_process)
    /\ \E why \in SkipReasons :
          /\ run' = [run EXCEPT !.ki = @ + 1]
          /\ api' = [api EXCEPT !.skipped = @ \cup
                      { <<run.regions[run.ri], run.clusters_to_process[run.ki]>> }]
    /\ UNCHANGED db
    /\ UNCHANGED storeVars

\* describe_cluster returns Ok without a cluster: res.cluster.unwrap()
\* panics.
eks_cluster_unwrap_panics ==
    /\ run.pc = "cluster"
    /\ run.ki <= Len(run.clusters_to_process)
    /\ run' = [run EXCEPT !.pc = "done", !.exit = "panic"]
    /\ api' = [api EXCEPT !.cluster_failed = @ \cup
                { <<run.regions[run.ri], run.clusters_to_process[run.ki]>> }]
    /\ UNCHANGED db
    /\ UNCHANGED storeVars

\* Config::from_custom_kubeconfig or Client::try_from returns Err: the ?
\* returns it from collect and the ? of main from main.
eks_client_err ==
    /\ run.pc = "cluster"
    /\ run.ki <= Len(run.clusters_to_process)
    /\ \E why \in FatalReasons :
          /\ run' = [run EXCEPT !.pc = "done", !.exit = "error"]
          /\ api' = [api EXCEPT !.cluster_failed = @ \cup
                      { <<run.regions[run.ri], run.clusters_to_process[run.ki]>> }]
    /\ UNCHANGED db
    /\ UNCHANGED storeVars

\* pods.list returns Ok: a record is pushed for every pod with an address.
eks_pods ==
    /\ run.pc = "cluster"
    /\ run.ki <= Len(run.clusters_to_process)
    /\ LET region == run.regions[run.ri]
           cluster_name == run.clusters_to_process[run.ki]
           new == PodResources(region, cluster_name, PodList, Len(PodList))
       IN  /\ run' = [run EXCEPT !.ki = @ + 1, !.all_resources = @ \o new]
           /\ api' = [api EXCEPT !.fetched = @ \cup
                       { new[i].arn : i \in DOMAIN new }]
    /\ UNCHANGED db
    /\ UNCHANGED storeVars

\* The clusters of the region are done: next region.
eks_region_done ==
    /\ run.pc = "cluster"
    /\ run.ki > Len(run.clusters_to_process)
    /\ run' = [run EXCEPT !.pc = "region", !.ri = @ + 1]
    /\ UNCHANGED <<db, api>>
    /\ UNCHANGED storeVars

\* Ok(all_resources) returns to main, which saves the batch when it is not
\* empty, prints the total and returns.
eks_main_save ==
    /\ run.pc = "region"
    /\ run.ri > Len(run.regions)
    /\ LET count == Len(run.all_resources) IN
       IF count > 0
       THEN \/ /\ db' = ApplyBatch(db, run.all_resources, count)
               /\ run' = [run EXCEPT !.pc = "done", !.exit = "ok",
                                     !.total_resources = @ + count]
               /\ api' = api
            \/ /\ db' = db
               /\ run' = [run EXCEPT !.pc = "done", !.exit = "error"]
               /\ api' = [api EXCEPT !.save_failed = TRUE]
       ELSE /\ db' = db
            /\ run' = [run EXCEPT !.pc = "done", !.exit = "ok"]
            /\ api' = api
    /\ UNCHANGED storeVars

NextEks ==
    \/ eks_clusters_to_process
    \/ eks_list_clusters_err
    \/ eks_client_err
    \/ eks_cluster_skipped
    \/ eks_cluster_unwrap_panics
    \/ eks_pods
    \/ eks_region_done
    \/ eks_main_save

\* One inventory run of main with the EKS collector alone.
SpecEks == InitEks /\ [][NextEks]_vars

\* ------------------------------------------- the collectors main selects

\* The services main has a collector for, in the order of --all-services.
AllServices ==
    <<"ec2", "elb", "rds", "dynamodb", "elasticache", "eks", "route53">>

\* The names tried in --services: three services and two names that are
\* none (one of them a service in another case).
ServiceNames == {"ec2", "eks", "rds", "s3", "EKS"}

ServiceLists == UNION { [1..n -> ServiceNames] : n \in 0..MaxServices }

\* Vec::retain(|s| s != x)
RECURSIVE Retain(_, _, _)
Retain(v, x, n) ==
    IF n = 0 THEN << >>
    ELSE Retain(v, x, n - 1) \o (IF v[n] # x THEN <<v[n]>> ELSE << >>)

\* As services_to_run, but with --no-eks applied to the list given, before
\* --all-services and the default are.
services_to_run_no_eks_first(services, all_services, no_eks) ==
    LET kept == IF no_eks THEN Retain(services, "eks", Len(services))
                ELSE services
    IN  IF all_services THEN AllServices
        ELSE IF kept = << >> THEN <<"ec2">>
        ELSE kept

\* services_to_run of main: the seven services with --all-services, else
\* the list given, else ec2; --no-eks then takes eks out.
services_to_run(services, all_services, no_eks) ==
    LET selected == IF all_services THEN AllServices
                    ELSE IF services = << >> THEN <<"ec2">>
                    ELSE services
    IN  IF no_eks THEN Retain(selected, "eks", Len(selected)) ELSE selected

\* The collectors main pushes for the first n services to run: one per
\* service it knows; for any other name a warning is printed.
RECURSIVE PushCollectors(_, _)
PushCollectors(to_run, n) ==
    IF n = 0 THEN << >>
    ELSE PushCollectors(to_run, n - 1) \o
         (IF to_run[n] \in Range(AllServices) THEN <<to_run[n]>> ELSE << >>)

\* The names main warns about among the services to run.
Warnings(to_run) == { x \in Range(to_run) : x \notin Range(AllServices) }

\* main resolves the collectors of an inventory run from its options.
resolve_collectors(services, all_services, no_eks) ==
    /\ run = NoRun
    /\ LET to_run == services_to_run(services, all_services, no_eks) IN
       run' = [ pc |-> "resolved", services |-> services,
                all_services |-> all_services, no_eks |-> no_eks,
                collectors |-> PushCollectors(to_run, Len(to_run)),
                warnings |-> Warnings(to_run) ]
    /\ UNCHANGED <<db, api>>
    /\ UNCHANGED storeVars

NextResolve ==
    \E services \in ServiceLists, all_services \in BOOLEAN, no_eks \in BOOLEAN :
        resolve_collectors(services, all_services, no_eks)

\* The collectors main selects, over the option values tried.
SpecResolve == Init /\ [][NextResolve]_vars

\* ------------------------------------------------- claims: the store (Spec)

\* The tag rows and the ip rows of the resource row stored for an arn.
TagsStoredFor(d, a) ==
    { <<t.key, t.value>> :
        t \in { u \in d.tags :
                  \E r \in d.resources : r.arn = a /\ u.resource_id = r.id } }

IpsStoredFor(d, a) ==
    { i.ip_address :
        i \in { u \in d.ip_addresses :
                  \E r \in d.resources : r.arn = a /\ u.resource_id = r.id } }

TagPairs(tags) == { <<k, tags[k]>> : k \in DOMAIN tags }
IpStrings(ips) == { IpToString(ips[i]) : i \in DOMAIN ips }

\* C1 (as claimed): a second save_resources(B) right after a successful
\* save_resources(B) leaves the same stored rows (surrogate ids aside) as the
\* first: no resource, tag or ip row is added, duplicated or left over.
C1_SecondSaveSameRows ==
    (pc = "idle" /\ again /\ result = "Ok") => Content(db) = Content(pre)

\* C2: once X has been persisted again, the tags and ips stored for X are
\* exactly those of the record last persisted for X; tags and ips of the
\* earlier record that the later one lacks are no longer stored for X.
C2_ChildrenAreLatest ==
    \A a \in Arns :
        latest[a] # NoRecord =>
            /\ TagsStoredFor(db, a) = TagPairs(latest[a].tags)
            /\ IpsStoredFor(db, a) = IpStrings(latest[a].ips)

\* X was stored with tags {a:1, b:2} and two addresses, and the call that
\* just returned Ok persisted it with {a:1} and one address.
C2_Witness ==
    /\ pc = "idle" /\ result = "Ok"
    /\ \E a \in Arns :
          /\ TagsStoredFor(pre, a) = TagPairs(TagsAB)
          /\ IpsStoredFor(pre, a) = {IpToString(IpA), IpToString(IpB)}
          /\ latest[a] # NoRecord
          /\ latest[a].tags = TagsA
          /\ \E i \in DOMAIN batch : batch[i].arn = a
          /\ TagsStoredFor(db, a) = TagPairs(TagsA)
          /\ IpsStoredFor(db, a) = {IpToString(IpA)}

\* C3: at most one resource row per arn, and it carries the name,
\* resource_type, region and details of the record last persisted for the arn.
C3_OneRowLastWins ==
    \A a \in Arns :
        LET rows == { r \in db.resources : r.arn = a } IN
        /\ Cardinality(rows) <= 1
        /\ latest[a] = NoRecord => rows = {}
        /\ latest[a] # NoRecord =>
              \E r \in rows :
                  /\ r.name = latest[a].name
                  /\ r.resource_type = latest[a].resource_type
                  /\ r.region = latest[a].region
                  /\ FromJsonText(r.details) = latest[a].details

\* One committed batch held the same arn twice, with different name,
\* resource_type, region and details, over a row already stored for the arn.
C3_Witness ==
    /\ pc = "idle" /\ result = "Ok" /\ Len(batch) = 2
    /\ batch[1].arn = batch[2].arn
    /\ batch[1].name # batch[2].name
    /\ \E r \in pre.resources : r.arn = batch[1].arn
    /\ \E r \in db.resources : r.arn = batch[2].arn /\ r.name = batch[2].name

\* C4: save_resources is atomic per batch: nothing of the batch is in the
\* store while the call runs or after it returned Err, and after Ok every
\* record of the batch has been applied, in order.
C4_BatchAtomic ==
    /\ pc \in {"tx", "failed"} => db = pre
    /\ (pc = "idle" /\ result = "Err") => db = pre
    /\ (pc = "idle" /\ result = "Ok") => db = ApplyBatch(pre, batch, Len(batch))

\* The call returned Err at the second record of its batch, after the first
\* had been written inside the transaction.
C4_Witness ==
    /\ pc = "idle" /\ result = "Err"
    /\ Len(batch) = 2 /\ idx = 2
    /\ db = pre
    /\ \A r \in db.resources : r.arn # batch[1].arn

\* C6 (as claimed): every tag row and every ip row refers to a resource row
\* that exists.
C6_NoOrphanRows ==
    /\ \A t \in db.tags : \E r \in db.resources : r.id = t.resource_id
    /\ \A i \in db.ip_addresses : \E r \in db.resources : r.id = i.resource_id

\* ------------------------------------------ claims: the readers (SpecQuery)

\* C7: run_query returns, each exactly once, the stored resources whose
\* resource_type is the canonical kind of one of the service filters (no
\* service filter: any) and whose region is one of the region filters (no
\* region filter: any); the seven short names map to their canonical kinds
\* and any other string to itself.
C7_QueryFilters ==
    /\ out.op = "query" =>
        LET want == { r \in db.resources :
                        /\ \/ out.services = << >>
                           \/ \E x \in Range(out.services) :
                                 r.resource_type = map_service_name(x)
                        /\ \/ out.regions = << >>
                           \/ r.region \in Range(out.regions) }
        IN  /\ \A r \in want :
                  Cardinality({ i \in DOMAIN out.results :
                                  /\ out.results[i].arn = r.arn
                                  /\ out.results[i].name = r.name
                                  /\ out.results[i].resource_type = r.resource_type
                                  /\ out.results[i].region = r.region }) = 1
            /\ \A i \in DOMAIN out.results :
                  \E r \in want : r.arn = out.results[i].arn
    /\ map_service_name("ec2") = "ec2:instance"
    /\ map_service_name("elb") = "elbv2:loadbalancer"
    /\ map_service_name("rds") = "rds:db_instance"
    /\ map_service_name("dynamodb") = "dynamodb:table"
    /\ map_service_name("elasticache") = "elasticache:cluster"
    /\ map_service_name("eks") = "eks:pod"
    /\ map_service_name("route53") = "route53:hostedzone"
    /\ \A x \in {"s3", "ec2:instance", "rds:db_instance", "EC2", ""} :
          map_service_name(x) = x

\* A listing by the short name ec2 and a region list kept one of the two
\* stored resources and left the other out.
C7_Witness ==
    /\ out.op = "query"
    /\ out.services = <<"ec2">>
    /\ out.regions # << >>
    /\ Cardinality(db.resources) = 2
    /\ Len(out.results) = 1
    /\ out.results[1].resource_type = "ec2:instance"

\* C8: every resource run_query returns carries exactly the tags, exactly
\* the addresses (each once) and the details of the record last persisted
\* for its arn, whatever the filters.
C8_QueryCarriesLatest ==
    out.op = "query" =>
        \A i \in DOMAIN out.results :
            LET v == out.results[i]
                l == latest[v.arn]
            IN  /\ l # NoRecord
                /\ v.tags = l.tags
                /\ Range(v.ips) = IpStrings(l.ips)
                /\ Len(v.ips) = Cardinality(IpStrings(l.ips))
                /\ v.details = l.details

\* A filtered listing returned a resource with tags {a:1} and one address
\* and a resource with no tags and no address, in a store that has held
\* tags {a:1, b:2}.
C8_Witness ==
    /\ out.op = "query"
    /\ out.regions # << >>
    /\ \E i \in DOMAIN out.results :
          out.results[i].tags = TagsA /\ out.results[i].ips = <<IpToString(IpA)>>
    /\ \E i \in DOMAIN out.results :
          out.results[i].tags = NoTags /\ out.results[i].ips = << >>
    /\ \E t \in db.tags : t.key = "b"

\* The arns whose last persisted record holds the address.
Owners(ip) ==
    { a \in Arns : latest[a] # NoRecord /\ ip \in Range(latest[a].ips) }

\* C9 (as claimed): identify_resource_from_db(A) returns the resource that
\* was persisted with address A, and not found for an address no stored
\* resource owns.
C9_FindsThatResource ==
    out.op = "identify" =>
        /\ \A a \in Owners(out.ip) :
              out.found = FormatIdentify(out.ip, latest[a])
        /\ Owners(out.ip) = {} => out.found = NotFound

\* C9 (amended): identify_resource_from_db(A) returns one resource whose
\* last persisted record holds A (so that resource, when it alone owns A),
\* and not found exactly when no stored resource owns A.
C9_FindsAnOwner ==
    out.op = "identify" =>
        IF Owners(out.ip) = {} THEN out.found = NotFound
        ELSE \E a \in Owners(out.ip) :
                 out.found = FormatIdentify(out.ip, latest[a])

\* A lookup of 10.0.0.1 found a resource while two resources own it.
C9_Witness ==
    /\ out.op = "identify"
    /\ out.ip = IpA
    /\ Cardinality(Owners(IpA)) = 2
    /\ out.found # NotFound

\* C10 (as claimed): two lookups of one address against the same store
\* contents return the same resource.
C10_LookupDeterministic ==
    [][ ( /\ out.op = "identify" /\ out'.op = "identify"
          /\ out'.ip = out.ip /\ db' = db )
        => out'.found = out.found ]_vars

\* --------------------------------------------------- claims: the run (SpecRun)

\* C5 (as claimed): when collection failed for a region and nothing else
\* went wrong, the run ends without error and every resource the other
\* regions returned is in the store.
C5_RegionFailureTolerated ==
    (run.pc = "done" /\ api.failed # {} /\ ~api.save_failed) =>
        /\ run.exit = "ok"
        /\ \A x \in api.returned :
              <<x.service, x.region>> \notin api.failed =>
                  \E r \in db.resources : r.arn = x.arn

\* The resource_type a collector gives its records.
KindOf(service) ==
    IF service = "ec2" THEN "ec2:instance" ELSE "rds:db_instance"

\* The places in the collector list of the collectors that returned a record
\* with the arn, among the first n.
ReturnedBy(a, n) ==
    { j \in 1..n :
        \E x \in api.returned :
            x.arn = a /\ x.service = run.collectors[j] }

\* C11: the collectors run one after another in selection order and the
\* batch of each is committed before the next collect call begins: whenever
\* collector ci is next or running, every record the earlier collectors
\* returned has its row, nothing of collector ci or a later one is stored,
\* and a row written by several collectors is the one of the last of them.
C11_CollectorsInOrder ==
    run.pc \in {"main", "collect", "save"} =>
        /\ \A x \in api.returned :
              (\E j \in 1..(run.ci - 1) : run.collectors[j] = x.service) =>
                  \E r \in db.resources : r.arn = x.arn
        /\ \A r \in db.resources :
              LET by == ReturnedBy(r.arn, run.ci - 1) IN
              /\ by # {}
              /\ r.resource_type = KindOf(run.collectors[SetMax(by)])
        /\ \A x \in api.returned :
              \E j \in 1..run.ci : j <= Len(run.collectors)
                                   /\ run.collectors[j] = x.service

\* The second collector's collect call is running; the first one's batch,
\* which holds the identifier the second one has just returned too, is
\* committed, and that row is still the first collector's.
C11_Witness ==
    /\ run.pc = "collect" /\ run.ci = 2
    /\ \E x, y \in api.returned :
          /\ x.arn = y.arn
          /\ x.service = run.collectors[1] /\ y.service = run.collectors[2]
          /\ \E r \in db.resources :
                r.arn = x.arn /\ r.resource_type = KindOf(run.collectors[1])

\* C12 (as claimed): every run ends by reporting a total, and the total is
\* the number of resources the run put in the store.
C12_TotalReported ==
    run.pc = "done" =>
        /\ run.exit = "ok"
        /\ run.total_resources = Cardinality(db.resources)

\* C17 (as claimed): no resource row has an empty identifier.
C17_NoEmptyIdentifier ==
    \A r \in db.resources : r.arn # ""

\* C20: when save_resources failed for the batch of collector N the run has
\* ended with that error, nothing of that batch is stored, no later
\* collector has run, and what the earlier collectors returned is stored.
C20_SaveFailureFatal ==
    api.save_failed =>
        /\ run.pc = "done" /\ run.exit = "error"
        /\ \A r \in db.resources :
              r.resource_type # KindOf(run.collectors[run.ci])
        /\ \A x \in api.returned :
              \E j \in 1..run.ci : run.collectors[j] = x.service
        /\ \A x \in api.returned :
              x.service # run.collectors[run.ci] =>
                  \E r \in db.resources : r.arn = x.arn

\* The save of the second collector's batch failed after the first
\* collector's batch had been committed.
C20_Witness ==
    /\ api.save_failed
    /\ run.ci = 2
    /\ db.resources # {}
    /\ \E x \in api.returned : x.service = run.collectors[2]

\* ------------------------------------------------ claims: is_public (SpecIp)

\* The upper 24 bits of an IPv4 address.
V4Upper(ip) == (ip[1] * 256 + ip[2]) * 256 + ip[3]

\* The IPv4 address is in the block base/len (base given by its octets),
\* for len up to 24 or len = 32.
InV4Block(ip, base, len) ==
    IF len = 32 THEN ip = base
    ELSE V4Upper(ip) \div (2 ^ (24 - len)) = V4Upper(base) \div (2 ^ (24 - len))

\* C13: for every IPv4 address is_public is false exactly for 10/8,
\* 172.16/12, 192.168/16, 127/8, 169.254/16, 255.255.255.255, 192.0.2.0/24,
\* 198.51.100.0/24, 203.0.113.0/24 and 0.0.0.0; 10.0.0.5 and 127.0.0.1 are
\* private and 8.8.8.8 is public.
C13_PublicV4 ==
    /\ (out.op = "is_public" /\ Len(out.ip) = 4) =>
          (out.public <=>
             ~ \/ InV4Block(out.ip, <<10, 0, 0, 0>>, 8)
               \/ InV4Block(out.ip, <<172, 16, 0, 0>>, 12)
               \/ InV4Block(out.ip, <<192, 168, 0, 0>>, 16)
               \/ InV4Block(out.ip, <<127, 0, 0, 0>>, 8)
               \/ InV4Block(out.ip, <<169, 254, 0, 0>>, 16)
               \/ InV4Block(out.ip, <<255, 255, 255, 255>>, 32)
               \/ InV4Block(out.ip, <<192, 0, 2, 0>>, 24)
               \/ InV4Block(out.ip, <<198, 51, 100, 0>>, 24)
               \/ InV4Block(out.ip, <<203, 0, 113, 0>>, 24)
               \/ InV4Block(out.ip, <<0, 0, 0, 0>>, 32))
    /\ ~is_public(<<10, 0, 0, 5>>)
    /\ ~is_public(<<127, 0, 0, 1>>)
    /\ is_public(<<8, 8, 8, 8>>)

\* 198.51.100.255, an address of a documentation range, was classified
\* private.
C13_Witness ==
    /\ out.op = "is_public"
    /\ out.ip = <<198, 51, 100, 255>>
    /\ ~out.public

\* C14: for every IPv6 address is_public is false exactly for ::1, ::,
\* fc00::/7 (first segment fc00..fdff), fe80::/10 (first segment
\* fe80..febf) and 2001:db8::/32; fe80::1 and 2001:db8::1 are private and
\* 2001:4860:4860::8888 is public.
C14_PublicV6 ==
    /\ (out.op = "is_public" /\ Len(out.ip) = 8) =>
          (out.public <=>
             ~ \/ out.ip = <<0, 0, 0, 0, 0, 0, 0, 1>>
               \/ out.ip = <<0, 0, 0, 0, 0, 0, 0, 0>>
               \/ (out.ip[1] >= 64512 /\ out.ip[1] <= 65023)
               \/ (out.ip[1] >= 65152 /\ out.ip[1] <= 65215)
               \/ (out.ip[1] = 8193 /\ out.ip[2] = 3512))
    /\ ~is_public(<<65152, 0, 0, 0, 0, 0, 0, 1>>)
    /\ ~is_public(<<8193, 3512, 0, 0, 0, 0, 0, 1>>)
    /\ is_public(<<8193, 18528, 18528, 0, 0, 0, 0, 34952>>)

\* febf::1, the last first segment of fe80::/10, was classified private.
C14_Witness ==
    /\ out.op = "is_public"
    /\ out.ip = <<65215, 0, 0, 0, 0, 0, 0, 1>>
    /\ ~out.public

\* ------------------------------- claims: the load-balancer collector (SpecElb)

\* C15 (as claimed): when the tag lookup of a chunk failed and nothing else
\* went wrong, the run ends without error and every load balancer listed,
\* those of the failed chunk included, is in the store.
C15_TagFailureTolerated ==
    (run.pc = "done" /\ api.tags_failed # {}
       /\ ~api.list_failed /\ ~api.save_failed) =>
        /\ run.exit = "ok"
        /\ \A x \in api.listed : \E r \in db.resources : r.arn = x.arn

\* C22: every describe_tags call carries at least 1 and at most 20 arns,
\* no load balancer is in two calls, and once the chunks of a region are
\* done every load balancer of the region that has an arn was in exactly one
\* call of that region.
C22_TagCallsOfAtMost20 ==
    /\ \A c \in api.tag_calls :
          Cardinality(c.arns) >= 1 /\ Cardinality(c.arns) <= 20
    /\ \A c1, c2 \in api.tag_calls :
          (c1.region = c2.region /\ c1.arns \cap c2.arns # {}) => c1 = c2
    /\ \A x \in api.listed :
          (/\ x.arn # ""
           /\ \/ \E j \in 1..(run.ri - 1) : run.regions[j] = x.region
              \/ /\ run.pc = "tags"
                 /\ run.regions[run.ri] = x.region
                 /\ run.chunk > NumChunks(Len(run.region_lbs)))
          => Cardinality({ c \in api.tag_calls :
                             c.region = x.region /\ x.arn \in c.arns }) = 1

\* A region of 21 load balancers, the first without arn, is done: its
\* lookups carried 19 arns and 1 arn.
C22_Witness ==
    /\ run.ri > 3
    /\ \E c \in api.tag_calls :
          c.region = "ap-south-1" /\ c.chunk = 1 /\ Cardinality(c.arns) = 19
    /\ \E c \in api.tag_calls :
          c.region = "ap-south-1" /\ c.chunk = 2 /\ Cardinality(c.arns) = 1
    /\ \E c \in api.tag_calls : Cardinality(c.arns) = 20

\* ------------------------------------------ claims: the EKS collector (SpecEks)

\* C16 (as claimed): a failure while handling one cluster does not leave
\* collect: when nothing but the handling of clusters failed, the run ends
\* without error and the pods fetched from every other cluster are stored.
C16_ClusterFailureSkipped ==
    (run.pc = "done" /\ ~api.list_failed /\ ~api.save_failed) =>
        /\ run.exit = "ok"
        /\ \A a \in api.fetched : \E r \in db.resources : r.arn = a

\* ---------------------------------------- claims: readers and the writer

\* The databases a read since the begin of the current or last
\* save_resources call may show: the store as it was before the call and,
\* once the call has returned Ok, the store with the whole batch applied.
CommittedViews ==
    IF pc = "idle" /\ result = "Ok"
    THEN {pre, ApplyBatch(pre, batch, Len(batch))}
    ELSE {pre}

C19_ReadersChangeNothing ==
    [][ out'.op \in {"query", "identify"} => (db' = db /\ tx' = tx) ]_vars

\* A read has answered from a store that holds resource, tag and ip rows,
\* among them a tag row that no resource row owns.
C19_Witness ==
    /\ out.op \in {"query", "identify"}
    /\ db.resources # {} /\ db.tags # {} /\ db.ip_addresses # {}
    /\ \E t \in db.tags : \A r \in db.resources : r.id # t.resource_id

\* ------------------------------------ claims: the collectors (SpecResolve)

\* C21: the collectors run are the seven services with all_services, else
\* the listed services, else ec2 alone; with no_eks eks is taken out of
\* whatever was selected and never runs; a name that is none of the seven is
\* skipped with a warning and the other services still run, in their order.
C21_CollectorsResolved ==
    run.pc = "resolved" =>
        LET seven == {"ec2", "elb", "rds", "dynamodb", "elasticache", "eks",
                      "route53"}
            Runs(x) == x \in seven /\ ~(run.no_eks /\ x = "eks")
            got == { run.collectors[i] : i \in DOMAIN run.collectors }
        IN  /\ run.all_services =>
                  /\ got = { x \in seven : Runs(x) }
                  /\ Len(run.collectors) = Cardinality(got)
                  /\ run.warnings = {}
            /\ (~run.all_services /\ run.services = << >>) =>
                  /\ run.collectors = <<"ec2">>
                  /\ run.warnings = {}
            /\ (~run.all_services /\ run.services # << >>) =>
                  /\ run.collectors = SelectSeq(run.services, Runs)
                  /\ run.warnings =
                        { run.services[i] : i \in DOMAIN run.services } \ seven
            /\ run.no_eks => "eks" \notin got

\* With --services s3,eks,rds and --no-eks the rds collector alone runs and
\* s3 is warned about.
C21_Witness ==
    /\ run.pc = "resolved"
    /\ ~run.all_services /\ run.no_eks
    /\ run.services = <<"s3", "eks", "rds">>
    /\ run.collectors = <<"rds">>
    /\ run.warnings = {"s3"}

\* ------------------------------------------ claims: what a save leaves alone

\* The arns of the records of a batch.
BatchArns(b) == { b[i].arn : i \in DOMAIN b }

\* C23: when save_resources(B) has returned, every resource that was stored
\* before the call and whose arn is not in B still has its resource row, and
\* the tag rows and ip rows of that row are the ones it had before the call.
C23_OthersUntouched ==
    (pc = "idle" /\ result \in {"Ok", "Err"}) =>
        \A r \in pre.resources :
            r.arn \notin BatchArns(batch) =>
                /\ r \in db.resources
                /\ { t \in db.tags : t.resource_id = r.id }
                     = { t \in pre.tags : t.resource_id = r.id }
                /\ { i \in db.ip_addresses : i.resource_id = r.id }
                     = { i \in pre.ip_addresses : i.resource_id = r.id }

\* A call that returned Ok wrote a record with tags for one arn while a
\* resource with another arn, absent from the batch, was stored with two
\* tags and two addresses.
C23_Witness ==
    /\ pc = "idle" /\ result = "Ok" /\ batch # << >>
    /\ \E i \in DOMAIN batch : batch[i].tags # NoTags /\ batch[i].ips # << >>
    /\ \E r \in pre.resources :
          /\ r.arn \notin BatchArns(batch)
          /\ Cardinality({ t \in pre.tags : t.resource_id = r.id }) = 2
          /\ Cardinality({ i \in pre.ip_addresses : i.resource_id = r.id }) = 2
          /\ r \in db.resources

\* ------------------------------------------ claims: no leak between resources

\* The tag rows and ip rows whose resource_id is the id of no resource row.
OrphanTags(d) ==
    { t \in d.tags : \A r \in d.resources : r.id # t.resource_id }
OrphanIps(d) ==
    { i \in d.ip_addresses : \A r \in d.resources : r.id # i.resource_id }

\* C24: a tag or an address is attributed to the resource with arn X only if
\* the record last persisted for X contains it: in the store (a tag or ip row
\* joined to X's resource row by its id), in what run_query returns for X,
\* and in what identify_resource_from_db finds, whatever ids the replaced
\* rows had and whether or not their child rows were deleted with them.
C24_NoLeakBetweenResources ==
    /\ \A r \in db.resources :
          /\ latest[r.arn] # NoRecord
          /\ \A t \in db.tags :
                t.resource_id = r.id =>
                    <<t.key, t.value>> \in TagPairs(latest[r.arn].tags)
          /\ \A i \in db.ip_addresses :
                i.resource_id = r.id =>
                    i.ip_address \in IpStrings(latest[r.arn].ips)
    /\ out.op = "query" =>
          \A n \in DOMAIN out.results :
              LET v == out.results[n] IN
              /\ \A k \in DOMAIN v.tags :
                    /\ k \in DOMAIN latest[v.arn].tags
                    /\ v.tags[k] = latest[v.arn].tags[k]
              /\ Range(v.ips) \subseteq IpStrings(latest[v.arn].ips)
    /\ (out.op = "identify" /\ out.found # NotFound) =>
          \E a \in Arns :
              /\ latest[a] # NoRecord
              /\ out.ip \in Range(latest[a].ips)
              /\ out.found = FormatIdentify(out.ip, latest[a])

\* Foreign keys are not enforced, a resource once stored with tag b and
\* address 8.8.8.8 was replaced by a record without them, their rows are
\* still in the store, and a lookup of 8.8.8.8 found nothing.
C24_Witness ==
    /\ ~foreign_keys
    /\ db.resources # {}
    /\ \E t \in OrphanTags(db) : t.key = "b"
    /\ \E i \in OrphanIps(db) : i.ip_address = IpToString(IpB)
    /\ out.op = "identify" /\ out.ip = IpB /\ out.found = NotFound

====
